---------------------------- MODULE Spec2Model ----------------------------
(***************************************************************************)
(* A model of dta.RoadLink (src/dta/RoadLink.py): the simulation series of *)
(* a road link (volumes and mean travel times per time bin), its outgoing  *)
(* and incoming movement lists, its number of lanes, the angle between two *)
(* links, and its shape points, orientation and direction.                 *)
(*                                                                         *)
(* Every public method is one action.  A call that raises leaves in        *)
(* `result` the kind of the exception; a call that returns leaves "ok"     *)
(* and, for a reader, the returned value in `retval`.                      *)
(*                                                                         *)
(* The series are Python defaultdicts: reading a missing key returns the   *)
(* default AND inserts the key, so the readers are actions too.            *)
(*                                                                         *)
(* Names the file uses without defining or importing them (pairwise,       *)
(* SimMovementError) and the collaborators Link, Node and Movement are     *)
(* code of the package outside this file; they are modelled by what the    *)
(* specification says of them.                                             *)
(***************************************************************************)
EXTENDS Integers, Sequences, FiniteSets, TLC

VARIABLES
    callsLeft,          \* how many more calls the behaviour makes
    lastOp,             \* the name of the method called last
    result,             \* "ok", or the kind of exception the last call raised
    retval,             \* what the last call returned
    simVolume,          \* self._simVolume of link Self: (start, end) -> volume
    simMeanTT,          \* self._simMeanTT of link Self: (start, end) -> minutes
    outgoingMovements,  \* link -> self._outgoingMovements, a list
    incomingMovements,  \* link -> self._incomingMovements, a list
    movVolume,          \* movement -> its own volume series
    movMeanTT,          \* movement -> its own travel time series
    constructed,        \* whether RoadLink.__init__ has returned
    numLanes,           \* self._numLanes
    lanePermissions,    \* self._lanePermissions: lane id -> vehicle class group
    linkA,              \* a link, as its start and end node
    linkB,              \* another link (or the same one)
    sameLink,           \* whether linkA and linkB are one object
    angleAB,            \* the outcome of linkA.getAcuteAngle(linkB)
    angleBA,            \* the outcome of linkB.getAcuteAngle(linkA)
    shapePoints         \* self._shapePoints of linkA, a list of (x, y)

vars == << callsLeft, lastOp, result, retval, simVolume, simMeanTT,
           outgoingMovements, incomingMovements, movVolume, movMeanTT,
           constructed, numLanes, lanePermissions,
           linkA, linkB, sameLink, angleAB, angleBA, shapePoints >>

simVars   == << simVolume, simMeanTT, movVolume, movMeanTT >>
netVars   == << outgoingMovements, incomingMovements >>
laneVars  == << constructed, numLanes, lanePermissions >>
angleVars == << linkA, linkB, sameLink, angleAB, angleBA, shapePoints >>

-----------------------------------------------------------------------------
(* Bounds *)

MaxCalls  == 3      \* calls in one behaviour
MaxVolume == 1      \* volumes are 0..MaxVolume
MaxTT     == 1      \* travel times are 0..MaxTT
NumLinks  == 3      \* links of the network
MaxLanes  == 3      \* lane counts offered are -1..MaxLanes
GridMax   == 1      \* node coordinates are 0..GridMax
MaxShapePoints == 3 \* shape points given to one link

-----------------------------------------------------------------------------
(* The simulation clock, read from the Link base class *)

simStartTimeInMin == 0
simTimeStepInMin  == 2
simEndTimeInMin   == 4

Times   == (simStartTimeInMin - 1) .. (simEndTimeInMin + 1)
Volumes == 0 .. MaxVolume
TTs     == 0 .. MaxTT

-----------------------------------------------------------------------------
(* The network: links, their end nodes, and the movements between links *)

Links == 1 .. NumLinks
Self  == 1          \* the link whose series are modelled

\* Link.getEndNode().getId(): links 1 and 2 end at node 1, links 3 and 4 at node 2, ...
LinkEndNode(l) == (l + 1) \div 2

Movements    == [inc : Links, out : Links]
NotAMovement == [inc |-> 0, out |-> 0]
MovementArgs == Movements \cup {NotAMovement}

\* the movements that leave link Self: the ones whose series link Self reads
\* and writes
OwnMovements == {m \in Movements : m.inc = Self}

isMovement(m) == m \in Movements
getIncomingLink(m) == m.inc
getOutgoingLink(m) == m.out
getDestinationNode(m) == LinkEndNode(m.out)

-----------------------------------------------------------------------------
(* Python helpers *)

\* range(start, stop, step) for step > 0
Range(start, stop, step) ==
    IF stop <= start THEN << >>
    ELSE [i \in 1 .. ((stop - start + step - 1) \div step) |-> start + (i - 1) * step]

\* pairwise(s): (s0, s1), (s1, s2), ...
pairwise(s) ==
    IF Len(s) < 2 THEN << >>
    ELSE [i \in 1 .. (Len(s) - 1) |-> << s[i], s[i + 1] >>]

SeqRange(s) == {s[i] : i \in DOMAIN s}

RECURSIVE SumOver(_, _)
SumOver(f, keys) ==
    IF keys = {} THEN 0
    ELSE LET k == CHOOSE x \in keys : TRUE
         IN  f[k] + SumOver(f, keys \ {k})

\* d[k] on a defaultdict: the value read ...
DefaultGet(d, k) == IF k \in DOMAIN d THEN d[k] ELSE 0
\* ... and the dict after the keys were read
DefaultTouch(d, keys) ==
    [k \in (DOMAIN d) \cup keys |-> IF k \in DOMAIN d THEN d[k] ELSE 0]
\* d[k] += v
DictAdd(d, k, v) ==
    [x \in (DOMAIN d) \cup {k} |->
        IF x = k THEN (IF k \in DOMAIN d THEN d[k] ELSE 0) + v ELSE d[x]]

\* d[k] = v
DictSet(d, k, v) == [x \in (DOMAIN d) \cup {k} |-> IF x = k THEN v ELSE d[x]]

EmptyDict == << >>

\* list.remove(x): drops the first occurrence
RECURSIVE ListRemove(_, _)
ListRemove(s, x) ==
    IF s = << >> THEN << >>
    ELSE IF Head(s) = x THEN Tail(s)
    ELSE << Head(s) >> \o ListRemove(Tail(s), x)

\* one more call is made, within the bound on calls
Called == callsLeft > 0 /\ callsLeft' = callsLeft - 1

NoValue == [kind |-> "none", num |-> 0, den |-> 0]
IntValue(n) == [kind |-> "int", num |-> n, den |-> 1]


RECURSIVE SumSeq(_)
SumSeq(s) == IF s = << >> THEN 0 ELSE Head(s) + SumSeq(Tail(s))

AvgValue(time, flow) == [kind |-> "avg", num |-> time, den |-> flow]
FreeFlowTT == [kind |-> "freeflow", num |-> 0, den |-> 0]
LengthTT   == [kind |-> "length", num |-> 0, den |-> 0]

-----------------------------------------------------------------------------
(* Validation of a time window *)

\* the check without its upper end
validateInputTimesNoEnd(startTimeInMin, endTimeInMin) ==
    IF startTimeInMin >= endTimeInMin THEN "DtaError"
    ELSE IF startTimeInMin < simStartTimeInMin THEN "DtaError"
    ELSE "ok"

validateInputTimes(startTimeInMin, endTimeInMin) ==
    IF startTimeInMin >= endTimeInMin THEN "DtaError"
    ELSE IF startTimeInMin < simStartTimeInMin \/ endTimeInMin > simEndTimeInMin
         THEN "DtaError"
    ELSE "ok"

checkInputTimeStep(startTimeInMin, endTimeInMin) ==
    IF endTimeInMin - startTimeInMin # simTimeStepInMin THEN "DtaError" ELSE "ok"

checkOutputTimeStep(startTimeInMin, endTimeInMin) ==
    IF (endTimeInMin - startTimeInMin) % simTimeStepInMin # 0 THEN "DtaError" ELSE "ok"

\* the two checks a reader makes, in order
ReaderCheck(s, e) ==
    IF validateInputTimes(s, e) # "ok" THEN validateInputTimes(s, e)
    ELSE checkOutputTimeStep(s, e)

\* the two checks a mutator makes, in order
MutatorCheck(s, e) ==
    IF validateInputTimes(s, e) # "ok" THEN validateInputTimes(s, e)
    ELSE checkInputTimeStep(s, e)

-----------------------------------------------------------------------------
(* Movement: the series a movement holds, read and written by delegation *)

\* the bins of range(s, e, step): the last bin of the window is lost
WindowBinsShort(s, e) == SeqRange(pairwise(Range(s, e, simTimeStepInMin)))

\* the native bins of the window [s, e)
WindowBins(s, e) == SeqRange(pairwise(Range(s, e + 1, simTimeStepInMin)))

MovGetSimVolume(m, s, e) ==
    LET bins == WindowBins(s, e)
    IN  SumOver([k \in bins |-> DefaultGet(movVolume[m], k)], bins)

\* mov.getSimTTInMin(s, e) * mov.getSimVolume(s, e): the vehicle-minutes of the window
MovTotalTime(m, s, e) ==
    LET bins == WindowBins(s, e)
    IN  SumOver([k \in bins |-> DefaultGet(movMeanTT[m], k) * DefaultGet(movVolume[m], k)], bins)

-----------------------------------------------------------------------------
(* RoadLink: reading the series *)

getNumOutgoingMovements(l) == Len(outgoingMovements[l])

\* the test that tells a link with several movements: more than two
SeveralMovementsOffByOne == getNumOutgoingMovements(Self) > 2

\* if self.getNumOutgoingMovements() > 1: no single movement to delegate to
SeveralMovements == getNumOutgoingMovements(Self) > 1

hasMovementVolumes(s, e) ==
    \E i \in DOMAIN outgoingMovements[Self] :
        MovGetSimVolume(outgoingMovements[Self][i], s, e) > 0

\* the volume asked of the movements alone, whether or not the link has any
SimVolumeValueOfMovements(s, e) ==
    SumSeq([i \in DOMAIN outgoingMovements[Self] |->
               MovGetSimVolume(outgoingMovements[Self][i], s, e)])

\* what self.getSimVolume(s, e) returns for a window that passed the checks
SimVolumeValue(s, e) ==
    IF getNumOutgoingMovements(Self) > 0
    THEN SumSeq([i \in DOMAIN outgoingMovements[Self] |->
                    MovGetSimVolume(outgoingMovements[Self][i], s, e)])
    ELSE LET bins == WindowBins(s, e)
         IN  SumOver([k \in bins |-> DefaultGet(simVolume, k)], bins)

\* self._simVolume after self.getSimVolume(s, e): the bins read are now keys
SimVolumeAfterRead(s, e) ==
    IF getNumOutgoingMovements(Self) > 0 THEN simVolume
    ELSE DefaultTouch(simVolume, WindowBins(s, e))

getSimVolume(startTimeInMin, endTimeInMin) ==
    /\ Called
    /\ lastOp' = "getSimVolume"
    /\ IF ReaderCheck(startTimeInMin, endTimeInMin) # "ok"
       THEN /\ result' = ReaderCheck(startTimeInMin, endTimeInMin)
            /\ retval' = NoValue
            /\ UNCHANGED simVars
       ELSE /\ result' = "ok"
            /\ retval' = IntValue(SimVolumeValue(startTimeInMin, endTimeInMin))
            /\ simVolume' = SimVolumeAfterRead(startTimeInMin, endTimeInMin)
            /\ UNCHANGED << simMeanTT, movVolume, movMeanTT >>
    /\ UNCHANGED << netVars, laneVars, angleVars >>


\* the own bins getSimTTInMin visits for a window, given the volume series
BinsWithin(vol, s, e) == {k \in DOMAIN vol : k[1] >= s /\ k[2] <= e}

\* a bin getSimTTInMin skips or accumulates; any other bin makes it raise
BinConsistent(vol, k) ==
    \/ vol[k] = 0 /\ DefaultGet(simMeanTT, k) = 0
    \/ vol[k] > 0 /\ DefaultGet(simMeanTT, k) > 0

getSimTTInMin(startTimeInMin, endTimeInMin) ==
    /\ Called
    /\ lastOp' = "getSimTTInMin"
    /\ IF ReaderCheck(startTimeInMin, endTimeInMin) # "ok"
       THEN /\ result' = ReaderCheck(startTimeInMin, endTimeInMin)
            /\ retval' = NoValue
            /\ UNCHANGED simVars
       ELSE LET totalFlow == SimVolumeValue(startTimeInMin, endTimeInMin)
                vol  == SimVolumeAfterRead(startTimeInMin, endTimeInMin)
                movs == outgoingMovements[Self]
                bins == BinsWithin(vol, startTimeInMin, endTimeInMin)
                bad  == {k \in bins : ~BinConsistent(vol, k)}
                used == {k \in bins : vol[k] > 0}
                flow == SumOver([k \in used |-> vol[k]], used)
                time == SumOver([k \in used |-> DefaultGet(simMeanTT, k) * vol[k]], used)
            IN  /\ simVolume' = vol
                /\ UNCHANGED << movVolume, movMeanTT >>
                /\ IF totalFlow = 0
                   THEN /\ result' = "ok"
                        /\ retval' = FreeFlowTT
                        /\ UNCHANGED simMeanTT
                   ELSE IF DOMAIN simMeanTT = {} /\ DOMAIN vol = {}
                   THEN /\ result' = "ok"
                        /\ retval' = AvgValue(
                               SumSeq([i \in DOMAIN movs |->
                                   MovTotalTime(movs[i], startTimeInMin, endTimeInMin)]),
                               totalFlow)
                        /\ UNCHANGED simMeanTT
                   ELSE IF DOMAIN simMeanTT # {} /\ DOMAIN vol # {}
                   THEN IF bad # {}
                        THEN \* the dict is walked in no particular order up to
                             \* the first inconsistent bin
                             \E b \in bad : \E seen \in SUBSET (bins \ bad) :
                                /\ result' = "SimMovementError"
                                /\ retval' = NoValue
                                /\ simMeanTT' = DefaultTouch(simMeanTT, seen \cup {b})
                        ELSE /\ simMeanTT' = DefaultTouch(simMeanTT, bins)
                             /\ IF flow = 0
                                THEN result' = "ZeroDivisionError" /\ retval' = NoValue
                                ELSE result' = "ok" /\ retval' = AvgValue(time, flow)
                   ELSE /\ result' = "ok"
                        /\ retval' = LengthTT
                        /\ UNCHANGED simMeanTT
    /\ UNCHANGED << netVars, laneVars, angleVars >>

-----------------------------------------------------------------------------
(* RoadLink: writing the series *)

setSimVolume(startTimeInMin, endTimeInMin, volume) ==
    /\ Called
    /\ lastOp' = "setSimVolume"
    /\ retval' = NoValue
    /\ IF MutatorCheck(startTimeInMin, endTimeInMin) # "ok"
       THEN /\ result' = MutatorCheck(startTimeInMin, endTimeInMin)
            /\ UNCHANGED simVars
       ELSE IF hasMovementVolumes(startTimeInMin, endTimeInMin)
       THEN /\ result' = "DtaError"
            /\ UNCHANGED simVars
       ELSE IF SeveralMovements
       THEN /\ result' = "DtaError"
            /\ UNCHANGED simVars
       ELSE IF getNumOutgoingMovements(Self) = 1
       THEN /\ result' = "ok"
            /\ movVolume' = [movVolume EXCEPT ![outgoingMovements[Self][1]] =
                                DictSet(@, << startTimeInMin, endTimeInMin >>, volume)]
            /\ UNCHANGED << simVolume, simMeanTT, movMeanTT >>
       ELSE /\ result' = "ok"
            /\ simVolume' = DictSet(simVolume, << startTimeInMin, endTimeInMin >>, volume)
            /\ UNCHANGED << simMeanTT, movVolume, movMeanTT >>
    /\ UNCHANGED << netVars, laneVars, angleVars >>

\* Movement.setSimTTInMin: stores the travel time; whether it refuses a bin
\* without volume, as the link does, is left open
MovSetSimTTInMin(m, s, e, tt) ==
    \/ /\ result' = "ok"
       /\ movMeanTT' = [movMeanTT EXCEPT ![m] = DictSet(@, << s, e >>, tt)]
    \/ /\ MovGetSimVolume(m, s, e) = 0
       /\ result' = "DtaError"
       /\ UNCHANGED movMeanTT

\* raise DtaError('... edge %s because it has zero flow' % self.iid_): the message
\* reads an attribute of the Link base class, taken to hold one printable value
ZeroFlowFailure == "DtaError"

setSimTTInMin(startTimeInMin, endTimeInMin, averageTTInMin) ==
    /\ Called
    /\ lastOp' = "setSimTTInMin"
    /\ retval' = NoValue
    /\ IF MutatorCheck(startTimeInMin, endTimeInMin) # "ok"
       THEN /\ result' = MutatorCheck(startTimeInMin, endTimeInMin)
            /\ UNCHANGED simVars
       ELSE IF startTimeInMin < simStartTimeInMin \/ endTimeInMin > simEndTimeInMin
       THEN /\ result' = "DtaError"
            /\ UNCHANGED simVars
       ELSE IF endTimeInMin - startTimeInMin # simTimeStepInMin
       THEN /\ result' = "DtaError"
            /\ UNCHANGED simVars
       ELSE IF SeveralMovements
       THEN /\ result' = "DtaError"
            /\ UNCHANGED simVars
       ELSE IF getNumOutgoingMovements(Self) = 1
       THEN IF averageTTInMin = 0
            THEN /\ result' = "ok"
                 /\ UNCHANGED simVars
            ELSE /\ MovSetSimTTInMin(outgoingMovements[Self][1],
                                     startTimeInMin, endTimeInMin, averageTTInMin)
                 /\ UNCHANGED << simVolume, simMeanTT, movVolume >>
       ELSE IF averageTTInMin = 0
            THEN /\ result' = "ok"
                 /\ UNCHANGED simVars
            ELSE IF SimVolumeValue(startTimeInMin, endTimeInMin) = 0
            THEN /\ result' = ZeroFlowFailure
                 /\ simVolume' = SimVolumeAfterRead(startTimeInMin, endTimeInMin)
                 /\ UNCHANGED << simMeanTT, movVolume, movMeanTT >>
            ELSE /\ result' = "ok"
                 /\ simVolume' = SimVolumeAfterRead(startTimeInMin, endTimeInMin)
                 /\ simMeanTT' = DictSet(simMeanTT,
                                    << startTimeInMin, endTimeInMin >>, averageTTInMin)
                 /\ UNCHANGED << movVolume, movMeanTT >>
    /\ UNCHANGED << netVars, laneVars, angleVars >>

-----------------------------------------------------------------------------
(* RoadLink: the movement lists *)

hasOutgoingMovement(l, nodeId) ==
    \E i \in DOMAIN outgoingMovements[l] :
        getDestinationNode(outgoingMovements[l][i]) = nodeId

\* the incoming lists after an append to the list of the movement's own link
IncomingAfterAddAtOwnLink(movement) ==
    [incomingMovements EXCEPT ![getIncomingLink(movement)] = Append(@, movement)]

\* movement.getOutgoingLink()._incomingMovements.append(movement)
IncomingAfterAdd(movement) ==
    [incomingMovements EXCEPT ![getOutgoingLink(movement)] = Append(@, movement)]

addOutgoingMovement(l, movement) ==
    /\ Called
    /\ lastOp' = "addOutgoingMovement"
    /\ retval' = NoValue
    /\ IF ~isMovement(movement)
       THEN /\ result' = "DtaError"
            /\ UNCHANGED netVars
       ELSE IF getIncomingLink(movement) # l
       THEN \* the message has no conversion for its argument: "..." % str(movement)
            /\ result' = "TypeError"
            /\ UNCHANGED netVars
       ELSE IF hasOutgoingMovement(l, getDestinationNode(movement))
       THEN /\ result' = "DtaError"
            /\ UNCHANGED netVars
       ELSE /\ result' = "ok"
            /\ LET out == [outgoingMovements EXCEPT ![l] = Append(@, movement)]
               IN  /\ outgoingMovements' = out
                   /\ incomingMovements' = IncomingAfterAdd(movement)
    /\ UNCHANGED << simVars, laneVars, angleVars >>

removeOutgoingMovement(l, movementToRemove) ==
    /\ Called
    /\ lastOp' = "removeOutgoingMovement"
    /\ retval' = NoValue
    /\ IF ~isMovement(movementToRemove)
       THEN \* the message has two conversions and one argument
            /\ result' = "TypeError"
            /\ UNCHANGED netVars
       ELSE IF getIncomingLink(movementToRemove) # l
       THEN /\ result' = "DtaError"
            /\ UNCHANGED netVars
       ELSE IF movementToRemove \notin SeqRange(outgoingMovements[l])
       THEN /\ result' = "DtaError"
            /\ UNCHANGED netVars
       ELSE IF movementToRemove \notin
                   SeqRange(incomingMovements[getOutgoingLink(movementToRemove)])
       THEN \* list.remove(x) of an absent x, after the outgoing list was changed
            /\ result' = "ValueError"
            /\ outgoingMovements' =
                  [outgoingMovements EXCEPT ![l] = ListRemove(@, movementToRemove)]
            /\ UNCHANGED incomingMovements
       ELSE /\ result' = "ok"
            /\ outgoingMovements' =
                  [outgoingMovements EXCEPT ![l] = ListRemove(@, movementToRemove)]
            /\ incomingMovements' =
                  [incomingMovements EXCEPT ![getOutgoingLink(movementToRemove)] =
                      ListRemove(@, movementToRemove)]
    /\ UNCHANGED << simVars, laneVars, angleVars >>


-----------------------------------------------------------------------------
(* RoadLink: construction and the lanes *)

VehicleClassGroups == {"all", "transit"}
GroupArgs == VehicleClassGroups \cup {"notAGroup"}
LaneCounts == -1 .. MaxLanes

\* RoadLink.__init__, as far as the lanes go
RoadLinkInit(lanes) ==
    /\ ~constructed
    /\ Called
    /\ lastOp' = "__init__"
    /\ retval' = NoValue
    /\ IF lanes <= 0
       THEN /\ result' = "DtaError"
            /\ UNCHANGED laneVars
       ELSE /\ result' = "ok"
            /\ constructed' = TRUE
            /\ numLanes' = lanes
            /\ lanePermissions' = EmptyDict
    /\ UNCHANGED << simVars, netVars, angleVars >>

setNumLanes(lanes) ==
    /\ constructed
    /\ Called
    /\ lastOp' = "setNumLanes"
    /\ retval' = NoValue
    /\ result' = "ok"
    /\ numLanes' = lanes
    /\ UNCHANGED << constructed, lanePermissions, simVars, netVars, angleVars >>

getNumLanes ==
    /\ constructed
    /\ Called
    /\ lastOp' = "getNumLanes"
    /\ result' = "ok"
    /\ retval' = IntValue(numLanes)
    /\ UNCHANGED << laneVars, simVars, netVars, angleVars >>

addLanePermission(laneId, vehicleClassGroup) ==
    /\ constructed
    /\ Called
    /\ lastOp' = "addLanePermission"
    /\ retval' = NoValue
    /\ IF vehicleClassGroup \notin VehicleClassGroups
       THEN /\ result' = "DtaError"
            /\ UNCHANGED laneVars
       ELSE IF laneId < 0 \/ laneId >= numLanes
       THEN /\ result' = "DtaError"
            /\ UNCHANGED laneVars
       ELSE /\ result' = "ok"
            /\ lanePermissions' = DictSet(lanePermissions, laneId, vehicleClassGroup)
            /\ UNCHANGED << constructed, numLanes >>
    /\ UNCHANGED << simVars, netVars, angleVars >>

-----------------------------------------------------------------------------
(* RoadLink: the angle between two links *)

\* Two node objects at every grid point: nodes are compared as objects, their
\* coordinates as numbers.
Coords == 0 .. GridMax
Nodes  == [copy : 1 .. 2, x : Coords, y : Coords]
LinkObjects == [s : Nodes, e : Nodes]

RECURSIVE GCD(_, _)
GCD(a, b) == IF b = 0 THEN a ELSE GCD(b, a % b)

\* An angle is kept as its cosine, exactly: the sign and the square, a reduced
\* fraction.  math.acos is one-to-one on [-1, 1], and the quotient it is given is
\* computed from the same products in either order of the two links, so equal
\* cosines here are equal angles there.
AngleOfCosine(dot, lenSq) ==
    LET g == GCD(dot * dot, lenSq)
    IN  [kind |-> "angle",
         num  |-> (IF dot < 0 THEN -1 ELSE 1) * ((dot * dot) \div g),
         den  |-> lenSq \div g]

Angle0   == [kind |-> "angle", num |-> 1, den |-> 1]
Angle180 == [kind |-> "angle", num |-> -1, den |-> 1]
Raised(kind) == [kind |-> kind, num |-> 0, den |-> 0]

\* self.getAcuteAngle(other); same: self and other are one object
AcuteAngle(self, other, same) ==
    LET dx1 == self.e.x - self.s.x
        dy1 == self.e.y - self.s.y
        dx2 == other.e.x - other.s.x
        dy2 == other.e.y - other.s.y
        dot == dx1 * dx2 + dy1 * dy2
        len1Sq == dx1 * dx1 + dy1 * dy1
        len2Sq == dx2 * dx2 + dy2 * dy2
    IN  IF same THEN Angle0
        ELSE IF /\ self.s.x = other.s.x
                /\ self.s.y = other.e.y
                /\ self.e.x = other.e.x
                /\ self.e.y = other.e.y
        THEN Angle0
        ELSE IF self.s = other.e /\ self.e = other.s
        THEN Angle180
        ELSE IF len1Sq = 0 THEN Raised("DtaError")
        ELSE IF len2Sq = 0 THEN Raised("DtaError")
        ELSE IF dot * dot > len1Sq * len2Sq
        THEN \* abs(q) > 1, then abs(q) - 1 < 0.00001: squared, and with d the
             \* excess dot^2 - len1^2 * len2^2, that is 10^10 * d < 200001 * len1^2 *
             \* len2^2, which for d < 200000 is the same in 32-bit integers as
             IF 199999 * (dot * dot - len1Sq * len2Sq) < 4 * len1Sq * len2Sq
             THEN Angle0
             ELSE Raised("DtaError")
        ELSE AngleOfCosine(dot, len1Sq * len2Sq)

getAcuteAngleAB ==
    /\ Called
    /\ lastOp' = "getAcuteAngle"
    /\ angleAB' = AcuteAngle(linkA, linkB, sameLink)
    /\ retval' = angleAB'
    /\ result' = IF angleAB'.kind = "angle" THEN "ok" ELSE angleAB'.kind
    /\ UNCHANGED << linkA, linkB, sameLink, angleBA, shapePoints,
                    simVars, netVars, laneVars >>

getAcuteAngleBA ==
    /\ Called
    /\ lastOp' = "getAcuteAngle"
    /\ angleBA' = AcuteAngle(linkB, linkA, sameLink)
    /\ retval' = angleBA'
    /\ result' = IF angleBA'.kind = "angle" THEN "ok" ELSE angleBA'.kind
    /\ UNCHANGED << linkA, linkB, sameLink, angleAB, shapePoints,
                    simVars, netVars, laneVars >>

-----------------------------------------------------------------------------
(* Shape points, orientation and direction of linkA *)

Points == Coords \X Coords

\* self._shapePoints.append((x, y))
addShapePoint(x, y) ==
    /\ Called
    /\ Len(shapePoints) < MaxShapePoints
    /\ lastOp' = "addShapePoint"
    /\ shapePoints' = Append(shapePoints, << x, y >>)
    /\ result' = "ok"
    /\ retval' = NoValue
    /\ UNCHANGED << linkA, linkB, sameLink, angleAB, angleBA,
                    simVars, netVars, laneVars >>

\* A bearing is kept exactly: quarter * 90 degrees plus atan(num / den), with
\* num >= 0, den > 0 and the fraction reduced, so the atan is in [0, 90).  In
\* floating point the formula gives exactly 45.0, 135.0, 225.0 and 315.0 when
\* num = den, so the comparisons with these four numbers are the same here.
Bearing(quarter, num, den) ==
    LET g == GCD(num, den)
    IN  [kind |-> "bearing", quarter |-> quarter, num |-> num \div g, den |-> den \div g]

Fabs(n) == IF n < 0 THEN -n ELSE n

\* the quadrant formula of getOrientation on the two points it has picked
OrientationOf(x1, y1, x2, y2) ==
    IF x2 > x1 /\ y2 <= y1 THEN Bearing(1, Fabs(y2 - y1), Fabs(x2 - x1))
    ELSE IF x2 <= x1 /\ y2 < y1 THEN Bearing(2, Fabs(x2 - x1), Fabs(y2 - y1))
    ELSE IF x2 < x1 /\ y2 >= y1 THEN Bearing(3, Fabs(y2 - y1), Fabs(x2 - x1))
    ELSE IF x2 >= x1 /\ y2 > y1 THEN Bearing(0, Fabs(x2 - x1), Fabs(y2 - y1))
    ELSE Bearing(0, 0, 1)

\* self.getOrientation(): a non-empty list takes its items -2 and -1, and a list
\* of one item has no item -2
Orientation ==
    IF shapePoints # << >>
    THEN IF Len(shapePoints) < 2
         THEN Raised("IndexError")
         ELSE LET p1 == shapePoints[Len(shapePoints) - 1]
                  p2 == shapePoints[Len(shapePoints)]
              IN  OrientationOf(p1[1], p1[2], p2[1], p2[2])
    ELSE OrientationOf(linkA.s.x, linkA.s.y, linkA.e.x, linkA.e.y)

\* orientation >= 45 + 90 * quarter, and orientation < 45 + 90 * quarter
AtLeastDiagonal(orientation, quarter) ==
    \/ orientation.quarter > quarter
    \/ orientation.quarter = quarter /\ orientation.num >= orientation.den

BelowDiagonal(orientation, quarter) == ~AtLeastDiagonal(orientation, quarter)

DIR_EB == "EB"
DIR_WB == "WB"
DIR_NB == "NB"
DIR_SB == "SB"

Directions == {DIR_NB, DIR_EB, DIR_SB, DIR_WB}

DirectionValue(d) == [kind |-> "direction", dir |-> d]

\* the buckets of getDirection
DirectionOf(orientation) ==
    IF AtLeastDiagonal(orientation, 3) \/ BelowDiagonal(orientation, 0)
    THEN DIR_NB
    ELSE IF AtLeastDiagonal(orientation, 0) /\ BelowDiagonal(orientation, 1)
    THEN DIR_EB
    ELSE IF AtLeastDiagonal(orientation, 1) /\ BelowDiagonal(orientation, 2)
    THEN DIR_SB
    ELSE DIR_WB

getOrientation ==
    /\ Called
    /\ lastOp' = "getOrientation"
    /\ LET orientation == Orientation
       IN  IF orientation.kind = "bearing"
           THEN result' = "ok" /\ retval' = orientation
           ELSE result' = orientation.kind /\ retval' = NoValue
    /\ UNCHANGED << angleVars, simVars, netVars, laneVars >>

getDirection ==
    /\ Called
    /\ lastOp' = "getDirection"
    /\ LET orientation == Orientation
       IN  IF orientation.kind = "bearing"
           THEN result' = "ok" /\ retval' = DirectionValue(DirectionOf(orientation))
           ELSE result' = orientation.kind /\ retval' = NoValue
    /\ UNCHANGED << angleVars, simVars, netVars, laneVars >>

-----------------------------------------------------------------------------
(* A link after construction, and the calls made on it *)

NoLink == [s |-> 0, e |-> 0]

InitCalls ==
    /\ callsLeft = MaxCalls
    /\ lastOp = "init"
    /\ result = "ok"
    /\ retval = NoValue

InitSeries ==
    /\ simVolume = EmptyDict
    /\ simMeanTT = EmptyDict
    /\ movVolume = [m \in OwnMovements |-> EmptyDict]
    /\ movMeanTT = [m \in OwnMovements |-> EmptyDict]

InitNet ==
    /\ outgoingMovements = [l \in Links |-> << >>]
    /\ incomingMovements = [l \in Links |-> << >>]

InitLanes ==
    /\ constructed = TRUE
    /\ numLanes = 1
    /\ lanePermissions = EmptyDict

InitAngle ==
    /\ linkA = NoLink
    /\ linkB = NoLink
    /\ sameLink = FALSE
    /\ angleAB = NoValue
    /\ angleBA = NoValue
    /\ shapePoints = << >>

Init == InitCalls /\ InitSeries /\ InitNet /\ InitLanes /\ InitAngle

\* movements of link Self to different nodes, in the order they are added
FirstMovements ==
    << [inc |-> Self, out |-> 1], [inc |-> Self, out |-> NumLinks] >>

\* the link when the simulation results are loaded: built, and given none, one
\* or two of its movements
InitLoaded ==
    /\ InitCalls /\ InitSeries /\ InitLanes /\ InitAngle
    /\ \E n \in 0 .. Len(FirstMovements) :
          LET list == SubSeq(FirstMovements, 1, n)
          IN  /\ outgoingMovements = [l \in Links |-> IF l = Self THEN list ELSE << >>]
              /\ incomingMovements =
                    [l \in Links |-> SelectSeq(list, LAMBDA m : getOutgoingLink(m) = l)]

\* the calls on link Self: its series and its own movement list
Next ==
    \/ \E s \in Times, e \in Times : getSimVolume(s, e)
    \/ \E s \in Times, e \in Times : getSimTTInMin(s, e)
    \/ \E s \in Times, e \in Times, v \in Volumes : setSimVolume(s, e, v)
    \/ \E s \in Times, e \in Times, tt \in TTs : setSimTTInMin(s, e, tt)
    \/ \E m \in MovementArgs : addOutgoingMovement(Self, m)
    \/ \E m \in MovementArgs : removeOutgoingMovement(Self, m)

Spec == InitLoaded /\ [][Next]_vars

\* the calls on the movement lists of every link of the network
NextNet ==
    \/ \E l \in Links, m \in MovementArgs : addOutgoingMovement(l, m)
    \/ \E l \in Links, m \in MovementArgs : removeOutgoingMovement(l, m)

SpecNet == Init /\ [][NextNet]_vars

\* a link under construction, then the calls on its lanes
InitUnbuilt ==
    /\ InitCalls /\ InitSeries /\ InitNet /\ InitAngle
    /\ constructed = FALSE
    /\ numLanes = 0
    /\ lanePermissions = EmptyDict

NextLanes ==
    \/ \E n \in LaneCounts : RoadLinkInit(n)
    \/ \E n \in LaneCounts : setNumLanes(n)
    \/ getNumLanes
    \/ \E laneId \in LaneCounts, g \in GroupArgs : addLanePermission(laneId, g)

SpecLanes == InitUnbuilt /\ [][NextLanes]_vars

\* any two links of the grid, or one link twice
InitTwoLinks ==
    /\ InitCalls /\ InitSeries /\ InitNet /\ InitLanes
    /\ linkA \in LinkObjects
    /\ linkB \in LinkObjects
    /\ sameLink \in BOOLEAN
    /\ sameLink => linkA = linkB
    /\ angleAB = NoValue
    /\ angleBA = NoValue
    /\ shapePoints = << >>

NextAngle == getAcuteAngleAB \/ getAcuteAngleBA

SpecAngle == InitTwoLinks /\ [][NextAngle]_vars

\* any link of the grid, between two node objects, without shape points yet; a
\* behaviour has room for every shape point and a call after the last
InitShape ==
    /\ InitSeries /\ InitNet /\ InitLanes
    /\ callsLeft = MaxShapePoints + 1
    /\ lastOp = "init"
    /\ result = "ok"
    /\ retval = NoValue
    /\ linkA \in {l \in LinkObjects : l.s.copy = 1 /\ l.e.copy = 2}
    /\ linkB = NoLink
    /\ sameLink = FALSE
    /\ angleAB = NoValue
    /\ angleBA = NoValue
    /\ shapePoints = << >>

NextShape ==
    \/ \E p \in Points : addShapePoint(p[1], p[2])
    \/ getOrientation
    \/ getDirection

SpecShape == InitShape /\ [][NextShape]_vars

-----------------------------------------------------------------------------
(* Properties of the series *)

NoMovements == getNumOutgoingMovements(Self) = 0

\* a window of one native bin inside the simulation horizon
SingleBin(s, e) ==
    /\ simStartTimeInMin <= s
    /\ e <= simEndTimeInMin
    /\ e = s + simTimeStepInMin

SingleBins == {b \in Times \X Times : SingleBin(b[1], b[2])}

\* a window inside the horizon, a positive number of native bins wide
ValidWindow(s, e) ==
    /\ s < e
    /\ simStartTimeInMin <= s
    /\ e <= simEndTimeInMin
    /\ (e - s) % simTimeStepInMin = 0

\* the windows of one bin that make up [s, e)
SubBins(s, e) ==
    {<< s + k * simTimeStepInMin, s + (k + 1) * simTimeStepInMin >> :
        k \in 0 .. ((e - s) \div simTimeStepInMin) - 1}

\* C1: a link with two or more outgoing movements holds no entry in its own
\* volume series and none in its own travel time series.
C1_NoOwnSeriesWithSeveralMovements ==
    getNumOutgoingMovements(Self) >= 2 =>
        (DOMAIN simVolume = {} /\ DOMAIN simMeanTT = {})

\* C4: on a link without outgoing movements, setSimVolume(s, e, v) of a bin of
\* the horizon succeeds and getSimVolume(s, e) then returns v, and what
\* getSimVolume returns for every other bin stays as it was; a setSimTTInMin
\* and a read of any window change what getSimVolume returns for no bin; and
\* getSimVolume(s, e) returns that value.
C4_SetThenGetReturnsVolume ==
    [][NoMovements =>
          /\ lastOp' = "setSimVolume" =>
                \A b \in SingleBins, v \in Volumes :
                   setSimVolume(b[1], b[2], v) =>
                      /\ result' = "ok"
                      /\ SimVolumeValue(b[1], b[2])' = v
                      /\ \A o \in SingleBins \ {b} :
                            SimVolumeValue(o[1], o[2])' = SimVolumeValue(o[1], o[2])
          /\ lastOp' \in {"getSimVolume", "getSimTTInMin", "setSimTTInMin"} =>
                \/ simVolume' = simVolume
                \/ \A b \in SingleBins :
                      SimVolumeValue(b[1], b[2])' = SimVolumeValue(b[1], b[2])
          /\ lastOp' = "getSimVolume" =>
                \A b \in SingleBins :
                   getSimVolume(b[1], b[2]) =>
                      (result' = "ok" /\ retval' = IntValue(SimVolumeValue(b[1], b[2])))
    ]_vars

\* a volume was stored in a bin, another bin was touched, and the volume was
\* read back
C4_Witness ==
    /\ NoMovements
    /\ lastOp = "getSimVolume"
    /\ result = "ok"
    /\ retval = IntValue(1)
    /\ \E k \in DOMAIN simVolume : \E j \in DOMAIN simVolume :
          k # j /\ simVolume[k] = 1 /\ simVolume[j] = 1

\* C5: on a link without outgoing movements, the volume of a window of the
\* horizon that is a positive number of native bins wide is the sum of the
\* volumes of its bins, a bin never written counting 0.
C5_VolumeIsSumOfBins ==
    NoMovements =>
        \A s \in Times, e \in Times :
            ValidWindow(s, e) =>
                SimVolumeValue(s, e) =
                    LET sub == SubBins(s, e)
                    IN  SumOver([b \in sub |-> SimVolumeValue(b[1], b[2])], sub)

\* getSimVolume over two bins, the first holding a volume, the second never
\* written and read as 0
C5_Witness ==
    /\ NoMovements
    /\ lastOp = "getSimVolume"
    /\ result = "ok"
    /\ retval = IntValue(1)
    /\ simMeanTT = EmptyDict
    /\ \E s \in Times :
          LET b1 == << s, s + simTimeStepInMin >>
              b2 == << s + simTimeStepInMin, s + 2 * simTimeStepInMin >>
          IN  /\ DOMAIN simVolume = {b1, b2}
              /\ simVolume[b1] = 1
              /\ simVolume[b2] = 0

\* C6: setSimVolume on a link with two or more outgoing movements raises the
\* domain error whatever the window and the volume, and writes neither the
\* series of the link nor the series of a movement.
C6_SetVolumeFailsWithSeveralMovements ==
    [][(lastOp' = "setSimVolume" /\ getNumOutgoingMovements(Self) >= 2) =>
          (result' = "DtaError" /\ UNCHANGED simVars)
    ]_vars

\* setSimVolume has failed on a link with two movements, one carrying volume
C6_Witness ==
    /\ getNumOutgoingMovements(Self) = 2
    /\ lastOp = "setSimVolume"
    /\ result = "DtaError"
    /\ \E k \in DOMAIN movVolume[outgoingMovements[Self][1]] :
          movVolume[outgoingMovements[Self][1]][k] > 0

\* C7: a reader called with a window that is empty, reversed, outside the
\* horizon or not a whole number of bins wide, and a mutator called with a
\* window that is empty, reversed, outside the horizon or not exactly one bin
\* wide, raises the domain error and touches no series: a call that ends
\* otherwise is no call with such a window.
C7_BadWindowFailsFirst ==
    [][\/ result' = "DtaError" /\ UNCHANGED simVars
       \/ /\ lastOp' = "getSimVolume" =>
                \A s \in Times, e \in Times :
                   ~ValidWindow(s, e) => ~getSimVolume(s, e)
          /\ lastOp' = "getSimTTInMin" =>
                \A s \in Times, e \in Times :
                   ~ValidWindow(s, e) => ~getSimTTInMin(s, e)
          /\ lastOp' = "setSimVolume" =>
                \A s \in Times, e \in Times, v \in Volumes :
                   ~SingleBin(s, e) => ~setSimVolume(s, e, v)
          /\ lastOp' = "setSimTTInMin" =>
                \A s \in Times, e \in Times, tt \in TTs :
                   ~SingleBin(s, e) => ~setSimTTInMin(s, e, tt)
    ]_vars

\* a mutator has refused its window on a link that holds both series
C7_Witness ==
    /\ lastOp = "setSimVolume"
    /\ result = "DtaError"
    /\ NoMovements
    /\ DOMAIN simVolume # {}
    /\ DOMAIN simMeanTT # {}

SeriesCalls == {"getSimVolume", "getSimTTInMin", "setSimVolume", "setSimTTInMin"}

\* C8: a call of setSimVolume, setSimTTInMin, getSimVolume or getSimTTInMin that
\* fails leaves the volume series and the travel time series of the link, keys
\* and values, as they were before the call.
C8_FailedCallLeavesSeries ==
    [][(lastOp' \in SeriesCalls /\ result' # "ok") =>
          (simVolume' = simVolume /\ simMeanTT' = simMeanTT)
    ]_vars

-----------------------------------------------------------------------------
(* Properties of the movement lists *)

NoTwoMovementsToOneNode(l) ==
    \A i \in DOMAIN outgoingMovements[l], j \in DOMAIN outgoingMovements[l] :
        i # j => getDestinationNode(outgoingMovements[l][i]) #
                 getDestinationNode(outgoingMovements[l][j])

\* C2: the outgoing movements of a link never hold two movements to the same
\* destination node, and an addOutgoingMovement of a movement to a node the
\* link already has a movement to raises the domain error and leaves the lists
\* as they were.
C2_OneMovementPerDestination ==
    /\ [](\A l \in Links : NoTwoMovementsToOneNode(l))
    /\ [][lastOp' = "addOutgoingMovement" =>
             \A l \in Links, m \in Movements :
                (hasOutgoingMovement(l, getDestinationNode(m))
                    /\ addOutgoingMovement(l, m)) =>
                   (result' = "DtaError" /\ UNCHANGED netVars)
       ]_vars

-----------------------------------------------------------------------------
(* Properties of the lanes *)

\* C3: a link that was constructed has numLanes > 0: the constructor refuses a
\* number of lanes of 0 or less, and no later call leaves the link with one.
C3_NumLanesPositive ==
    /\ [](constructed => numLanes > 0)
    /\ [][lastOp' = "__init__" =>
             \A n \in LaneCounts :
                (n <= 0 /\ RoadLinkInit(n)) => (result' = "DtaError" /\ ~constructed')
       ]_vars

-----------------------------------------------------------------------------
(* Properties of the angle *)

ZeroLength(link) == link.s.x = link.e.x /\ link.s.y = link.e.y

\* C9: getAcuteAngle is symmetric: a.getAcuteAngle(b) and b.getAcuteAngle(a) end
\* the same way, with the same angle or both with an error.
C9_AcuteAngleSymmetric ==
    (angleAB # NoValue /\ angleBA # NoValue) => angleAB = angleBA

\* C10: getAcuteAngle raises the domain error whenever one of the two links has
\* its start and its end at the same coordinates, also when the other link is
\* the link itself or its reverse.
C10_ZeroLengthLinkIsAnError ==
    (ZeroLength(linkA) \/ ZeroLength(linkB)) =>
        /\ angleAB # NoValue => angleAB = Raised("DtaError")
        /\ angleBA # NoValue => angleBA = Raised("DtaError")

-----------------------------------------------------------------------------
(* Properties of the orientation *)

\* the bearing lies in [45 + 90 * from, 45 + 90 * to)
BetweenDiagonals(orientation, from, to) ==
    AtLeastDiagonal(orientation, from) /\ BelowDiagonal(orientation, to)

\* the direction the four intervals give a bearing of [0, 360)
BucketOf(orientation) ==
    CHOOSE d \in Directions :
       \/ d = DIR_EB /\ BetweenDiagonals(orientation, 0, 1)
       \/ d = DIR_SB /\ BetweenDiagonals(orientation, 1, 2)
       \/ d = DIR_WB /\ BetweenDiagonals(orientation, 2, 3)
       \/ d = DIR_NB /\ ~BetweenDiagonals(orientation, 0, 3)

InFullCircle(orientation) ==
    /\ orientation.kind = "bearing"
    /\ orientation.quarter \in 0 .. 3
    /\ orientation.num >= 0
    /\ orientation.den > 0

\* the two points the bearing is said to be taken from
BearingPoints ==
    IF Len(shapePoints) >= 2
    THEN << shapePoints[Len(shapePoints) - 1], shapePoints[Len(shapePoints)] >>
    ELSE << << linkA.s.x, linkA.s.y >>, << linkA.e.x, linkA.e.y >> >>

\* C11: on a link built and then given any number of shape points,
\* getOrientation returns a bearing in [0, 360) and getDirection returns the one
\* of NB, EB, SB, WB whose interval holds that bearing; neither call fails.
C11_DirectionIsTotal ==
    [][/\ lastOp' = "getOrientation" =>
             (result' = "ok" /\ InFullCircle(retval'))
       /\ lastOp' = "getDirection" =>
             /\ result' = "ok"
             /\ retval'.kind = "direction"
             /\ LET p == BearingPoints
                IN  retval'.dir = BucketOf(OrientationOf(p[1][1], p[1][2], p[2][1], p[2][2]))
      ]_vars

-----------------------------------------------------------------------------
(* Properties of the travel times *)

C13_TravelTimeImpliesVolume ==
    NoMovements =>
       \A k \in DOMAIN simMeanTT :
          simMeanTT[k] # 0 => DefaultGet(simVolume, k) # 0

-----------------------------------------------------------------------------
(* Properties of the two movement lists *)

\* how many times the list holds the movement
MovementCount(list, m) == Cardinality({i \in DOMAIN list : list[i] = m})

ListsAgree ==
    \A m \in Movements :
       MovementCount(outgoingMovements[getIncomingLink(m)], m) =
          MovementCount(incomingMovements[getOutgoingLink(m)], m)

ListCalls == {"addOutgoingMovement", "removeOutgoingMovement"}

\* C14: whatever addOutgoingMovement and removeOutgoingMovement calls were made
\* on the links of a network, every movement is as many times in the outgoing
\* list of its incoming link as in the incoming list of its outgoing link, and
\* a call of the two that fails changes neither list.
C14_MovementListsAgree ==
    /\ []ListsAgree
    /\ [][(lastOp' \in ListCalls /\ result' # "ok") => UNCHANGED netVars]_vars

\* a movement was removed from a link that keeps another one, which the link it
\* leads to still lists
C14_Witness ==
    /\ lastOp = "removeOutgoingMovement"
    /\ result = "ok"
    /\ \E l \in Links :
          /\ Len(outgoingMovements[l]) = 1
          /\ getOutgoingLink(outgoingMovements[l][1]) # l
          /\ MovementCount(incomingMovements[getOutgoingLink(outgoingMovements[l][1])],
                           outgoingMovements[l][1]) = 1

=============================================================================
